---- MODULE Spec2Model ----
(***************************************************************************)
(* A model of expedition_clustering/pipeline.py: the Preprocessor, the     *)
(* spatial and temporal DBSCAN transformers, the reconnect (splitter)      *)
(* transformers, CombineClusters, ValidateSpatiotemporalConnectivity and   *)
(* IterativeSpatiotemporalClustering, and the pipeline of create_pipeline. *)
(*                                                                         *)
(* A data frame is a record [rows, cols]: rows is the sequence of rows in  *)
(* frame order, cols the set of cluster-id columns the frame carries.      *)
(* A row is [idx, id, lat, lon, ts, sp, t, stc]: idx the index label, id   *)
(* the collectingeventid, lat/lon in whole degrees, ts the startdate in    *)
(* half-days since 1970-01-01 00:00, and the three cluster ids.            *)
(* Coordinates are taken on the equator or at a pole, where the haversine  *)
(* great-circle angle is exact in whole degrees.                           *)
(***************************************************************************)
EXTENDS Integers, Sequences, FiniteSets, TLC

VARIABLES
    entry,       \* which public entry point the caller invoked
    pc,          \* the step about to run
    X,           \* the frame flowing through the steps
    given,       \* the frame passed to the latest transform call
    given_after, \* that same frame object as it is after the call
    ctl_in,      \* the frame the Iteration Controller received
    e_dist,      \* km
    e_days,      \* days
    max_iter,    \* IterativeSpatiotemporalClustering.max_iter
    iteration,   \* the controller's loop variable (0 before the loop)
    last_error,  \* the controller's last_error
    errs,        \* every error the controller's validator call raised, in order
    steps,       \* the sub-steps the controller ran, in order
    log,         \* the controller's per-iteration log records, in order
    nerr,        \* number of error objects created so far
    outcome      \* what the entry point gave back: returned / raised

vars == <<entry, pc, X, given, given_after, ctl_in, e_dist, e_days, max_iter,
          iteration, last_error, errs, steps, log, nerr, outcome>>

----------------------------------------------------------------------------
(* Bounds of the model *)

\* longest exhaustively enumerated record set
MaxRecs == 2
\* largest max_iter tried besides the default
MaxIter == 3
\* the current time of Preprocessor.transform, in half-days since 1970
Now == 80

(* Program constants *)

\* pipeline.py:62 eps_rad = e_dist / 6371
EarthRadiusKm == 6371
\* pipeline.py:368 max_iter=5
DefaultMaxIter == 5
\* pipeline.py:184 spatial_bad[:10]
MaxExamples == 10
\* pipeline.py:42 min_year = 1800: 1800-01-01 00:00 is 62091 days before 1970
MinYearStart == 0 - 124182

\* a missing value (NaN / NaT / None) of a nullable field
NA == 0 - 1000000

\* an unparseable startdate: not null, but NaT after pd.to_datetime(errors="coerce")
BadDate == 0 - 999999

\* the columns
ID == "collectingeventid"
LAT == "latitude1"
LON == "longitude1"
DATE == "startdate"
SP == "spatial_cluster_id"
TC == "temporal_cluster_id"
STC == "spatiotemporal_cluster_id"

----------------------------------------------------------------------------
(* Sequences and small helpers *)

Abs(x) == IF x < 0 THEN 0 - x ELSE x

Range(s) == {s[i] : i \in 1..Len(s)}

RECURSIVE SetMax(_)
SetMax(S) == LET x == CHOOSE y \in S : TRUE
             IN IF S = {x} THEN x
                ELSE LET m == SetMax(S \ {x}) IN IF x > m THEN x ELSE m

\* positions of s, in order, whose element satisfies the mask m (a set of positions)
RECURSIVE PosSeq(_, _, _)
PosSeq(n, m, i) == IF i > n THEN <<>>
                   ELSE IF i \in m THEN <<i>> \o PosSeq(n, m, i + 1)
                   ELSE PosSeq(n, m, i + 1)

\* the distinct values of s in order of first appearance (Series.unique, drop_duplicates)
RECURSIVE Unique(_)
Unique(s) == IF s = <<>> THEN <<>>
             ELSE LET u == Unique(SubSeq(s, 1, Len(s) - 1))
                      x == s[Len(s)]
                  IN IF x \in Range(u) THEN u ELSE Append(u, x)

IndexOf(s, x) == CHOOSE i \in 1..Len(s) : s[i] = x

----------------------------------------------------------------------------
(* The two metrics *)

\* great-circle angle in degrees between two rows on the equator or at a pole
ArcDeg(a, b) ==
    IF a.lat = 0 /\ b.lat = 0
    THEN LET d == Abs(a.lon - b.lon) IN IF d > 180 THEN 360 - d ELSE d
    ELSE IF a.lat = 0 \/ b.lat = 0 THEN 90
    ELSE IF a.lat = b.lat THEN 0 ELSE 180

\* haversine(a, b) <= e / 6371 radians, with pi taken as 355/113:
\* ArcDeg * pi / 180 <= e / 6371
SpatialNear(a, b, e) == ArcDeg(a, b) * 355 * EarthRadiusKm <= 180 * 113 * e

\* .astype("datetime64[D]").astype(float): whole days since the epoch
DayOffset(ts) == ts \div 2

TemporalNear(a, b, e) == Abs(DayOffset(a.ts) - DayOffset(b.ts)) <= e

----------------------------------------------------------------------------
(* DBSCAN(eps, min_samples=1).fit_predict: every point is a core point, a  *)
(* cluster is a connected component of the eps-neighbour graph, and the    *)
(* clusters are numbered 0, 1, ... in the order of their first point.      *)

Near(a, b, axis, eps) ==
    IF axis = "spatial" THEN SpatialNear(a, b, eps) ELSE TemporalNear(a, b, eps)

Neighbours(sub, i, axis, eps) == {j \in 1..Len(sub) : Near(sub[i], sub[j], axis, eps)}

\* a variant that stops at the direct neighbours of S (a pairwise bound, no chaining)
ExpandOnce(sub, S, axis, eps) == S \cup UNION {Neighbours(sub, i, axis, eps) : i \in S}

\* the points density-reachable from the set S
RECURSIVE Expand(_, _, _, _)
Expand(sub, S, axis, eps) ==
    LET T == S \cup UNION {Neighbours(sub, i, axis, eps) : i \in S}
    IN IF T = S THEN S ELSE Expand(sub, T, axis, eps)

\* the scan over the points: lab is the labelling so far (-1: not visited), c the next label
RECURSIVE Scan(_, _, _, _, _, _)
Scan(sub, axis, eps, i, lab, c) ==
    IF i > Len(sub) THEN lab
    ELSE IF lab[i] # 0 - 1 THEN Scan(sub, axis, eps, i + 1, lab, c)
    ELSE LET comp == Expand(sub, {i}, axis, eps)
         IN Scan(sub, axis, eps, i + 1,
                 [j \in 1..Len(sub) |-> IF j \in comp THEN c ELSE lab[j]], c + 1)

FitPredict(sub, axis, eps) ==
    Scan(sub, axis, eps, 1, [j \in 1..Len(sub) |-> 0 - 1], 0)

\* labels.max() of a non-empty labelling
MaxLabel(lab) == SetMax(Range(lab))

----------------------------------------------------------------------------
(* Frames *)

Frame(rows, cols) == [rows |-> rows, cols |-> cols]

\* the rows of a frame at the positions pos, in that order (a groupby sub-frame, X.loc[mask])
Take(rows, pos) == [k \in 1..Len(pos) |-> rows[pos[k]]]

\* the positions of the rows whose field f equals v
Where(rows, f, v) == PosSeq(Len(rows), {i \in 1..Len(rows) : rows[i][f] = v}, 1)

Column(rows, f) == [i \in 1..Len(rows) |-> rows[i][f]]

\* lexicographic order on the group keys of a groupby: tuples of integers of one length
RECURSIVE KeyLess(_, _)
KeyLess(a, b) ==
    IF a = <<>> THEN FALSE
    ELSE IF Head(a) # Head(b) THEN Head(a) < Head(b)
    ELSE KeyLess(Tail(a), Tail(b))

\* groupby(...) yields its groups in ascending key order
RECURSIVE SortedKeys(_)
SortedKeys(K) ==
    IF K = {} THEN <<>>
    ELSE LET m == CHOOSE a \in K : \A b \in K \ {a} : KeyLess(a, b)
         IN <<m>> \o SortedKeys(K \ {m})

----------------------------------------------------------------------------
(* No error / an error object. serial tells two error objects apart.       *)

\* kind: the exception class and cause; parts: the clauses of a connectivity message;
\* missing: the columns a schema error names
NoError == [kind |-> "none", parts |-> <<>>, missing |-> <<>>, serial |-> 0]

Error(kind, parts, serial) ==
    [kind |-> kind, parts |-> parts, missing |-> <<>>, serial |-> serial]

SchemaError(missing, serial) ==
    [kind |-> "ValueError:columns", parts |-> <<>>, missing |-> missing, serial |-> serial]

----------------------------------------------------------------------------
(* SpatialDBSCAN.transform: pipeline.py 56-73 *)

SpatialDBSCANTransform(F, ed, serial) ==
    IF F.rows = <<>>
    THEN \* DBSCAN.fit_predict refuses an array with 0 samples
         [ret |-> F, arg |-> F, err |-> Error("ValueError:empty", <<>>, serial)]
    ELSE LET labels == FitPredict(F.rows, "spatial", ed)
         IN [ret |-> Frame([i \in 1..Len(F.rows) |-> [F.rows[i] EXCEPT !.sp = labels[i]]],
                           F.cols \cup {SP}),
             arg |-> F,
             err |-> NoError]

(* TemporalDBSCAN.transform: pipeline.py 83-103 *)

\* the per-spatial-cluster loop: t starts at -1 and each group's mask is filled in turn
RECURSIVE TemporalFill(_, _, _, _, _)
TemporalFill(rows, ids, k, ey, t) ==
    IF k > Len(ids) THEN t
    ELSE LET pos    == Where(rows, "sp", ids[k])
             labels == FitPredict(Take(rows, pos), "temporal", ey)
         IN TemporalFill(rows, ids, k + 1, ey,
                [i \in 1..Len(rows) |->
                    IF rows[i].sp = ids[k] THEN labels[IndexOf(pos, i)] ELSE t[i]])

TemporalLabels(rows, ey) ==
    TemporalFill(rows, Unique(Column(rows, "sp")), 1, ey, [i \in 1..Len(rows) |-> 0 - 1])

\* a variant that clusters the dates of the whole frame at once, across spatial clusters
TemporalDBSCANAcrossGroups(F, ey, serial) ==
    IF SP \notin F.cols
    THEN [ret |-> F, arg |-> F, err |-> Error("KeyError", <<>>, serial)]
    ELSE LET t == FitPredict(F.rows, "temporal", ey)
         IN [ret |-> Frame([i \in 1..Len(F.rows) |-> [F.rows[i] EXCEPT !.t = t[i]]],
                           F.cols \cup {TC}),
             arg |-> F,
             err |-> NoError]

TemporalDBSCANTransform(F, ey, serial) ==
    IF SP \notin F.cols
    THEN [ret |-> F, arg |-> F, err |-> Error("KeyError", <<>>, serial)]
    ELSE LET t == TemporalLabels(F.rows, ey)
         IN [ret |-> Frame([i \in 1..Len(F.rows) |-> [F.rows[i] EXCEPT !.t = t[i]]],
                           F.cols \cup {TC}),
             arg |-> F,
             err |-> NoError]

(* TemporalDBSCANRecompute.transform: pipeline.py 257-273 *)

\* a variant that leaves a temporal_cluster_id column the frame already carries as it is
TemporalRecomputeOnlyWhenMissing(F, ey, serial) ==
    IF SP \notin F.cols
    THEN [ret |-> F, arg |-> F, err |-> Error("KeyError", <<>>, serial)]
    ELSE IF TC \in F.cols
    THEN [ret |-> F, arg |-> F, err |-> NoError]
    ELSE LET t == TemporalLabels(F.rows, ey)
         IN [ret |-> Frame([i \in 1..Len(F.rows) |-> [F.rows[i] EXCEPT !.t = t[i]]],
                           F.cols \cup {TC}),
             arg |-> F,
             err |-> NoError]

TemporalDBSCANRecomputeTransform(F, ey, serial) ==
    IF SP \notin F.cols
    THEN [ret |-> F, arg |-> F, err |-> Error("KeyError", <<>>, serial)]
    ELSE LET t == TemporalFill(F.rows, Unique(Column(F.rows, "sp")), 1, ey,
                               [i \in 1..Len(F.rows) |-> 0 - 1])
         IN [ret |-> Frame([i \in 1..Len(F.rows) |-> [F.rows[i] EXCEPT !.t = t[i]]],
                           F.cols \cup {TC}),
             arg |-> F,
             err |-> NoError]

----------------------------------------------------------------------------
(* The reconnect transformers share one loop: group the frame by the key   *)
(* columns `by`, re-cluster each group of more than one row on `axis`, and *)
(* when that gives more than one component keep component 0 (unique[0])    *)
(* and write a fresh id into column `target` of every other component.     *)

KeyOf(r, by) == [j \in 1..Len(by) |-> r[by[j]]]

GroupPos(rows, by, key) ==
    PosSeq(Len(rows), {i \in 1..Len(rows) : KeyOf(rows[i], by) = key}, 1)

\* a variant that takes comp_rows for positions (X.iloc) instead of index labels
AssignByPosition(cur, sub, labels, m, target, next) ==
    [i \in 1..Len(cur) |->
        LET hits == {c \in 1..m : \E j \in 1..Len(sub) :
                                     labels[j] = c /\ sub[j].idx = i - 1}
        IN IF hits = {} THEN cur[i]
           ELSE [cur[i] EXCEPT ![target] = next + SetMax(hits) - 1]]

\* a variant that gives a fresh id to component 1 only and leaves the further ones
AssignFirstComponentOnly(cur, sub, labels, m, target, next) ==
    [i \in 1..Len(cur) |->
        IF \E j \in 1..Len(sub) : labels[j] = 1 /\ sub[j].idx = cur[i].idx
        THEN [cur[i] EXCEPT ![target] = next]
        ELSE cur[i]]

\* X.loc[comp_rows, target] = next_id, for the components 1..m of one group, in order:
\* component c takes next + c - 1. comp_rows are index labels.
AssignComponents(cur, sub, labels, m, target, next) ==
    [i \in 1..Len(cur) |->
        LET hits == {c \in 1..m : \E j \in 1..Len(sub) :
                                     labels[j] = c /\ sub[j].idx = cur[i].idx}
        IN IF hits = {} THEN cur[i]
           ELSE [cur[i] EXCEPT ![target] = next + SetMax(hits) - 1]]

\* a variant whose counter is not advanced from one split group to the next
RECURSIVE ReconnectLoopSameCounter(_, _, _, _, _, _, _, _, _)
ReconnectLoopSameCounter(rows0, cur, keys, k, by, axis, eps, target, next) ==
    IF k > Len(keys) THEN cur
    ELSE LET sub == Take(rows0, GroupPos(rows0, by, keys[k]))
             labels == IF Len(sub) <= 1 THEN <<>> ELSE FitPredict(sub, axis, eps)
             m      == IF Len(sub) <= 1 THEN 0 ELSE MaxLabel(labels)
         IN ReconnectLoopSameCounter(rows0,
                IF m = 0 THEN cur ELSE AssignComponents(cur, sub, labels, m, target, next),
                keys, k + 1, by, axis, eps, target, next)

\* rows0: the frame as grouped; cur: the frame as written so far
RECURSIVE ReconnectLoop(_, _, _, _, _, _, _, _, _)
ReconnectLoop(rows0, cur, keys, k, by, axis, eps, target, next) ==
    IF k > Len(keys) THEN cur
    ELSE LET sub == Take(rows0, GroupPos(rows0, by, keys[k]))
         IN IF Len(sub) <= 1
            THEN ReconnectLoop(rows0, cur, keys, k + 1, by, axis, eps, target, next)
            ELSE LET labels == FitPredict(sub, axis, eps)
                     m      == MaxLabel(labels)
                 IN IF m = 0
                    THEN ReconnectLoop(rows0, cur, keys, k + 1, by, axis, eps, target, next)
                    ELSE ReconnectLoop(rows0,
                                       AssignComponents(cur, sub, labels, m, target, next),
                                       keys, k + 1, by, axis, eps, target, next + m)

\* a variant whose counter starts at the maximum itself (no + 1)
NextLabelAtMax(rows, target) ==
    IF rows = <<>> THEN 0 ELSE SetMax(Range(Column(rows, target)))

\* int(column.max()) + 1 if the frame has rows else 0
NextLabel(rows, target) ==
    IF rows = <<>> THEN 0 ELSE SetMax(Range(Column(rows, target))) + 1

Reconnect(rows, by, axis, eps, target) ==
    ReconnectLoop(rows, rows, SortedKeys({KeyOf(rows[i], by) : i \in 1..Len(rows)}), 1,
                  by, axis, eps, target, NextLabel(rows, target))

(* SpatialReconnectWithinTemporal.transform: pipeline.py 213-242 *)

\* a variant that relabels the frame it was given (no X = X.copy())
SpatialReconnectInPlace(F, ed, serial) ==
    IF SP \notin F.cols \/ TC \notin F.cols
    THEN [ret |-> F, arg |-> F, err |-> Error("KeyError", <<>>, serial)]
    ELSE LET G == Frame(Reconnect(F.rows, <<"sp", "t">>, "spatial", ed, "sp"), F.cols)
         IN [ret |-> G, arg |-> G, err |-> NoError]

\* a variant that finds the columns and splits nothing
SpatialReconnectNeverSplitting(F, ed, serial) ==
    IF SP \notin F.cols \/ TC \notin F.cols
    THEN [ret |-> F, arg |-> F, err |-> Error("KeyError", <<>>, serial)]
    ELSE [ret |-> F, arg |-> F, err |-> NoError]

\* a variant that writes the fresh ids into temporal_cluster_id
SpatialReconnectWritingTemporal(F, ed, serial) ==
    IF SP \notin F.cols \/ TC \notin F.cols
    THEN [ret |-> F, arg |-> F, err |-> Error("KeyError", <<>>, serial)]
    ELSE [ret |-> Frame(Reconnect(F.rows, <<"sp", "t">>, "spatial", ed, "t"), F.cols),
          arg |-> F,
          err |-> NoError]

SpatialReconnectWithinTemporalTransform(F, ed, serial) ==
    IF SP \notin F.cols \/ TC \notin F.cols
    THEN [ret |-> F, arg |-> F, err |-> Error("KeyError", <<>>, serial)]
    ELSE [ret |-> Frame(Reconnect(F.rows, <<"sp", "t">>, "spatial", ed, "sp"), F.cols),
          arg |-> F,
          err |-> NoError]

\* a variant that writes the fresh ids into spatial_cluster_id
SpatialReconnectStWritingSpatial(F, ed, serial) ==
    IF STC \notin F.cols
    THEN [ret |-> F, arg |-> F, err |-> NoError]
    ELSE [ret |-> Frame(Reconnect(F.rows, <<"stc">>, "spatial", ed, "sp"), F.cols),
          arg |-> F,
          err |-> NoError]

(* SpatialReconnectWithinSpatiotemporal.transform: pipeline.py 288-316 *)

SpatialReconnectWithinSpatiotemporalTransform(F, ed, serial) ==
    IF STC \notin F.cols
    THEN [ret |-> F, arg |-> F, err |-> NoError]
    ELSE [ret |-> Frame(Reconnect(F.rows, <<"stc">>, "spatial", ed, "stc"), F.cols),
          arg |-> F,
          err |-> NoError]

(* TemporalReconnectWithinSpatiotemporal.transform: pipeline.py 331-359 *)

\* a variant whose neighbourhood is open (days apart < e_days instead of <=)
TemporalReconnectStrictly(F, ey, serial) ==
    IF STC \notin F.cols
    THEN [ret |-> F, arg |-> F, err |-> NoError]
    ELSE [ret |-> Frame(Reconnect(F.rows, <<"stc">>, "temporal", ey - 1, "stc"), F.cols),
          arg |-> F,
          err |-> NoError]

\* a variant that splits nothing
TemporalReconnectNeverSplitting(F, ey, serial) ==
    [ret |-> F, arg |-> F, err |-> NoError]

TemporalReconnectWithinSpatiotemporalTransform(F, ey, serial) ==
    IF STC \notin F.cols
    THEN [ret |-> F, arg |-> F, err |-> NoError]
    ELSE [ret |-> Frame(Reconnect(F.rows, <<"stc">>, "temporal", ey, "stc"), F.cols),
          arg |-> F,
          err |-> NoError]

----------------------------------------------------------------------------
(* CombineClusters.transform: pipeline.py 110-126 *)

\* X.merge(combos, on=[sp, t], how="left"): each left row, in order, once per matching
\* right row, carrying that row's spatiotemporal id
RECURSIVE MergeLeft(_, _, _)
MergeLeft(rows, combos, i) ==
    IF i > Len(rows) THEN <<>>
    ELSE LET hit == PosSeq(Len(combos),
                           {k \in 1..Len(combos) : combos[k] = <<rows[i].sp, rows[i].t>>}, 1)
         IN [k \in 1..Len(hit) |-> [rows[i] EXCEPT !.stc = hit[k] - 1]]
            \o MergeLeft(rows, combos, i + 1)

\* a variant that keeps a spatiotemporal column the frame already has
CombineKeepingOld(F, serial) ==
    IF SP \notin F.cols \/ TC \notin F.cols
    THEN [ret |-> F, arg |-> F, err |-> Error("KeyError", <<>>, serial)]
    ELSE IF STC \in F.cols THEN [ret |-> F, arg |-> F, err |-> NoError]
    ELSE LET rows   == F.rows
             combos == Unique([i \in 1..Len(rows) |-> <<rows[i].sp, rows[i].t>>])
         IN [ret |-> Frame(MergeLeft(rows, combos, 1), F.cols \cup {STC}),
             arg |-> F,
             err |-> NoError]

\* a variant that numbers the pairs in sorted order (groupby(...).ngroup())
CombineNumberingSorted(F, serial) ==
    IF SP \notin F.cols \/ TC \notin F.cols
    THEN [ret |-> F, arg |-> F, err |-> Error("KeyError", <<>>, serial)]
    ELSE LET rows == F.rows
             keys == SortedKeys({<<rows[i].sp, rows[i].t>> : i \in 1..Len(rows)})
         IN [ret |-> Frame([i \in 1..Len(rows) |->
                              [rows[i] EXCEPT !.stc = IndexOf(keys, <<rows[i].sp, rows[i].t>>) - 1]],
                           F.cols \cup {STC}),
             arg |-> F,
             err |-> NoError]

\* a variant that leaves the merge's fresh RangeIndex in place (no X.index = original_indices)
CombineWithoutIndexRestore(F, serial) ==
    IF SP \notin F.cols \/ TC \notin F.cols
    THEN [ret |-> F, arg |-> F, err |-> Error("KeyError", <<>>, serial)]
    ELSE LET rows   == F.rows
             combos == Unique([i \in 1..Len(rows) |-> <<rows[i].sp, rows[i].t>>])
             merged == MergeLeft(rows, combos, 1)
         IN [ret |-> Frame([i \in 1..Len(merged) |-> [merged[i] EXCEPT !.idx = i - 1]],
                           F.cols \cup {STC}),
             arg |-> F,
             err |-> NoError]

\* a variant that drops the old spatiotemporal column and never writes the new one
CombineWithoutColumn(F, serial) ==
    IF SP \notin F.cols \/ TC \notin F.cols
    THEN [ret |-> F, arg |-> F, err |-> Error("KeyError", <<>>, serial)]
    ELSE [ret |-> Frame(F.rows, F.cols \ {STC}), arg |-> F, err |-> NoError]

CombineClustersTransform(F, serial) ==
    IF SP \notin F.cols \/ TC \notin F.cols
    THEN [ret |-> F, arg |-> F, err |-> Error("KeyError", <<>>, serial)]
    ELSE LET rows   == F.rows
             \* drop_duplicates().reset_index(drop=True), numbered range(len(...))
             combos == Unique([i \in 1..Len(rows) |-> <<rows[i].sp, rows[i].t>>])
             merged == MergeLeft(rows, combos, 1)
         IN IF Len(merged) # Len(rows)
            THEN \* X.index = original_indices refuses a length mismatch
                 [ret |-> F, arg |-> F, err |-> Error("ValueError:length", <<>>, serial)]
            ELSE [ret |-> Frame([i \in 1..Len(merged) |->
                                    [merged[i] EXCEPT !.idx = rows[i].idx]],
                                F.cols \cup {STC}),
                  arg |-> F,
                  err |-> NoError]

----------------------------------------------------------------------------
(* ValidateSpatiotemporalConnectivity.transform: pipeline.py 144-197 *)

\* a variant that skips the groups of two as well (len(sub) <= 2)
RECURSIVE BadGroupsSkippingPairs(_, _, _, _, _)
BadGroupsSkippingPairs(rows, keys, k, axis, eps) ==
    IF k > Len(keys) THEN <<>>
    ELSE LET sub == Take(rows, GroupPos(rows, <<"stc">>, keys[k]))
             m   == IF Len(sub) <= 2 THEN 0 ELSE MaxLabel(FitPredict(sub, axis, eps))
         IN (IF m > 0 THEN <<[id |-> keys[k][1], comps |-> m + 1, size |-> Len(sub)]>>
             ELSE <<>>)
            \o BadGroupsSkippingPairs(rows, keys, k + 1, axis, eps)

\* a variant that reports a group only from three components on (labels.max() > 1)
RECURSIVE BadGroupsFromThree(_, _, _, _, _)
BadGroupsFromThree(rows, keys, k, axis, eps) ==
    IF k > Len(keys) THEN <<>>
    ELSE LET sub == Take(rows, GroupPos(rows, <<"stc">>, keys[k]))
             m   == IF Len(sub) <= 1 THEN 0 ELSE MaxLabel(FitPredict(sub, axis, eps))
         IN (IF m > 1 THEN <<[id |-> keys[k][1], comps |-> m + 1, size |-> Len(sub)]>>
             ELSE <<>>)
            \o BadGroupsFromThree(rows, keys, k + 1, axis, eps)

\* the (id, comps, size) entry of a group whose re-clustering on axis has a label > 0
RECURSIVE BadGroups(_, _, _, _, _)
BadGroups(rows, keys, k, axis, eps) ==
    IF k > Len(keys) THEN <<>>
    ELSE LET sub == Take(rows, GroupPos(rows, <<"stc">>, keys[k]))
             m   == IF Len(sub) <= 1 THEN 0 ELSE MaxLabel(FitPredict(sub, axis, eps))
         IN (IF m > 0 THEN <<[id |-> keys[k][1], comps |-> m + 1, size |-> Len(sub)]>>
             ELSE <<>>)
            \o BadGroups(rows, keys, k + 1, axis, eps)

StcKeys(rows) == SortedKeys({<<rows[i].stc>> : i \in 1..Len(rows)})

SpatialBad(rows, ed) == BadGroups(rows, StcKeys(rows), 1, "spatial", ed)

TemporalBad(rows, ey) == BadGroups(rows, StcKeys(rows), 1, "temporal", ey)

\* a variant that lists every offending group (no [:10])
ClauseListingAll(axis, bad) == [axis |-> axis, count |-> Len(bad), examples |-> bad]

\* one clause of the message: the count of offending groups and the first 10 of them
Clause(axis, bad) ==
    [axis |-> axis, count |-> Len(bad),
     examples |-> SubSeq(bad, 1, IF Len(bad) < MaxExamples THEN Len(bad) ELSE MaxExamples)]

ValidatorParts(rows, ed, ey) ==
    LET sb == SpatialBad(rows, ed)
        tb == TemporalBad(rows, ey)
    IN (IF sb # <<>> THEN <<Clause("spatially disconnected", sb)>> ELSE <<>>)
       \o (IF tb # <<>> THEN <<Clause("temporally disconnected", tb)>> ELSE <<>>)

\* a variant that works on the caller's frame (no X.copy()) and renumbers the
\* spatiotemporal ids 0, 1, ... in order of first appearance before it checks
ValidatorRenumbering(F, ed, ey, serial) ==
    IF STC \notin F.cols
    THEN [ret |-> F, arg |-> F, err |-> Error("ValueError:missing", <<>>, serial)]
    ELSE LET ids   == Unique(Column(F.rows, "stc"))
             G     == Frame([i \in 1..Len(F.rows) |->
                               [F.rows[i] EXCEPT !.stc = IndexOf(ids, F.rows[i].stc) - 1]],
                            F.cols)
             parts == ValidatorParts(G.rows, ed, ey)
         IN IF parts # <<>>
            THEN [ret |-> G, arg |-> G, err |-> Error("ValueError:connectivity", parts, serial)]
            ELSE [ret |-> G, arg |-> G, err |-> NoError]

ValidatorTransform(F, ed, ey, serial) ==
    IF STC \notin F.cols
    THEN [ret |-> F, arg |-> F, err |-> Error("ValueError:missing", <<>>, serial)]
    ELSE LET parts == ValidatorParts(F.rows, ed, ey)
         IN IF parts # <<>>
            THEN [ret |-> F, arg |-> F, err |-> Error("ValueError:connectivity", parts, serial)]
            ELSE [ret |-> F, arg |-> F, err |-> NoError]

----------------------------------------------------------------------------
(* Preprocessor.transform: pipeline.py 21-46 *)

RequiredColumns == <<ID, LAT, LON, DATE>>

\* a variant that stops at the first missing column
MissingColumnsFirstOnly(cols) ==
    LET miss == {k \in 1..Len(RequiredColumns) : RequiredColumns[k] \notin cols}
    IN IF miss = {} THEN <<>>
       ELSE <<RequiredColumns[CHOOSE k \in miss : \A j \in miss : k <= j]>>

MissingColumns(cols) ==
    LET miss == {k \in 1..Len(RequiredColumns) : RequiredColumns[k] \notin cols}
    IN Take(RequiredColumns, PosSeq(Len(RequiredColumns), miss, 1))

\* rows[pos], pos the positions satisfying keep, in frame order
Filter(rows, keep) == Take(rows, PosSeq(Len(rows), keep, 1))

\* drop_duplicates(subset="collectingeventid", keep="first")
DropDuplicates(rows) ==
    Filter(rows, {i \in 1..Len(rows) : \A j \in 1..(i - 1) : rows[j].id # rows[i].id})

\* dropna(subset=[latitude1, longitude1, startdate])
DropNa(rows) ==
    Filter(rows, {i \in 1..Len(rows) :
                    rows[i].lat # NA /\ rows[i].lon # NA /\ rows[i].ts # NA})

\* latitude1.between(-90, 90) & longitude1.between(-180, 180)
InRange(rows) ==
    Filter(rows, {i \in 1..Len(rows) :
                    /\ 0 - 90 <= rows[i].lat /\ rows[i].lat <= 90
                    /\ 0 - 180 <= rows[i].lon /\ rows[i].lon <= 180})

\* pd.to_datetime(errors="coerce")
ToDatetime(ts) == IF ts = BadDate THEN NA ELSE ts

\* (startdate.dt.year >= 1800) & (startdate <= today); a comparison with NaT is False
ValidDate(ts, today) == ts # NA /\ ts >= MinYearStart /\ ts <= today

DateFilter(rows, today) ==
    LET conv == [i \in 1..Len(rows) |-> [rows[i] EXCEPT !.ts = ToDatetime(rows[i].ts)]]
    IN Filter(conv, {i \in 1..Len(conv) : ValidDate(conv[i].ts, today)})

\* reset_index(drop=True)
ResetIndex(rows) == [i \in 1..Len(rows) |-> [rows[i] EXCEPT !.idx = i - 1]]

\* a variant that removes the invalid rows first and the duplicates last
PreprocessorFilteringFirst(F, today, serial) ==
    LET missing == MissingColumns(F.cols)
    IN IF missing # <<>>
       THEN [ret |-> F, arg |-> F, err |-> SchemaError(missing, serial)]
       ELSE [ret |-> Frame(ResetIndex(DropDuplicates(DateFilter(InRange(DropNa(F.rows)),
                                                                today))),
                           F.cols),
             arg |-> F,
             err |-> NoError]

PreprocessorTransform(F, today, serial) ==
    LET missing == MissingColumns(F.cols)
    IN IF missing # <<>>
       THEN [ret |-> F, arg |-> F, err |-> SchemaError(missing, serial)]
       ELSE [ret |-> Frame(ResetIndex(DateFilter(InRange(DropNa(DropDuplicates(F.rows))),
                                                 today)),
                           F.cols),
             arg |-> F,
             err |-> NoError]

----------------------------------------------------------------------------
(* IterativeSpatiotemporalClustering._disconnect_stats: pipeline.py 426-455 *)

DisconnectStats(F, ed, ey) ==
    IF STC \notin F.cols THEN [spatial_bad |-> <<>>, temporal_bad |-> <<>>]
    ELSE [spatial_bad  |-> [k \in 1..Len(SpatialBad(F.rows, ed)) |-> SpatialBad(F.rows, ed)[k].id],
          temporal_bad |-> [k \in 1..Len(TemporalBad(F.rows, ey)) |-> TemporalBad(F.rows, ey)[k].id]]

NUnique(rows, f) == Cardinality(Range(Column(rows, f)))

\* the logger.info record of one pass: pipeline.py 398-412
LogRecord(F, it, mi, ed, ey) ==
    LET st == DisconnectStats(F, ed, ey)
    IN [iteration |-> it, max_iter |-> mi,
        spatial_n |-> NUnique(F.rows, "sp"), temporal_n |-> NUnique(F.rows, "t"),
        stc_n |-> IF STC \in F.cols THEN NUnique(F.rows, "stc") ELSE 0,
        spatial_bad |-> Len(st.spatial_bad), temporal_bad |-> Len(st.temporal_bad)]

\* X = X.copy() on entry to IterativeSpatiotemporalClustering.transform
ControllerCopy(F) == [ret |-> F, arg |-> F]

\* a variant whose loop runs one pass more (range(1, self.max_iter + 2))
InRangeOfLoopOneMore(it, mi) == 1 <= it /\ it <= mi + 1

\* for iteration in range(1, self.max_iter + 1): is there a pass numbered it?
InRangeOfLoop(it, mi) == 1 <= it /\ it <= mi

\* except ValueError as e: the handler of the controller's validator call
CaughtByController(err) ==
    err.kind \in {"ValueError:connectivity", "ValueError:missing", "ValueError:columns",
                  "ValueError:empty", "ValueError:length"}

\* a variant that keeps the first error (last_error = last_error or e)
KeepFirstError(prev, e) == IF prev.kind = "none" THEN e ELSE prev

\* last_error = e
KeepError(prev, e) == e

----------------------------------------------------------------------------
(* The record sets the entry points are called with *)

Row(idx, id, lat, lon, ts, sp, t, stc) ==
    [idx |-> idx, id |-> id, lat |-> lat, lon |-> lon, ts |-> ts,
     sp |-> sp, t |-> t, stc |-> stc]

DataCols == {ID, LAT, LON, DATE}

NoFrame == Frame(<<>>, {})

\* a clean record set on the equator from <<lon, ts>> points: distinct event ids,
\* the default RangeIndex, no cluster-id column yet
CleanFrame(pts) ==
    Frame([i \in 1..Len(pts) |-> Row(i - 1, i, 0, pts[i][1], pts[i][2], NA, NA, NA)],
          DataCols)

\* points from a list of longitudes and a list of whole days
Pts(lons, days) == [i \in 1..Len(lons) |-> <<lons[i], 2 * days[i]>>]

LonVals == {0, 1, 2}
\* half-days: day 0, day 1, day 2 (at noon), day 4 (at noon)
TsVals == {0, 2, 5, 9}

SmallPts == UNION {[1..n -> LonVals \X TsVals] : n \in 0..MaxRecs}

\* every small record set, with a radius under which neighbouring degrees and
\* neighbouring days are linked
SmallCases == {[pts |-> p, ed |-> 112, ey |-> 1] : p \in SmallPts}

\* spec scenario A: one place, one day apart
ScenarioA == [pts |-> Pts(<<0, 0>>, <<0, 1>>), ed |-> 1, ey |-> 5]
\* spec scenario B / test_validate_...: (0,0) and (0,2), same date
ScenarioB == [pts |-> Pts(<<0, 2>>, <<0, 0>>), ed |-> 1, ey |-> 1]
\* spec scenario C: two pairs far apart in space and time
ScenarioC == [pts |-> Pts(<<0, 0, 10, 10>>, <<0, 1, 31, 32>>), ed |-> 1, ey |-> 5]
\* spec scenario E: a chain of three
ScenarioE == [pts |-> Pts(<<0, 1, 2>>, <<3, 3, 3>>), ed |-> 112, ey |-> 1]
\* a record set whose first pass fails validation
Hard8 == [pts |-> Pts(<<0, 0, 1, 2, 3, 4, 5, 6>>, <<0, 0, 2, 0, 4, 1, 30, 3>>),
          ed |-> 112, ey |-> 1]
\* a record set whose first two passes fail validation
Hard11 == [pts |-> Pts(<<15, 6, 11, 14, 7, 8, 9, 12, 5, 10, 13>>,
                       <<7, 3, 3, 11, 5, 1, 4, 9, 6, 8, 2>>),
           ed |-> 112, ey |-> 1]
\* a record set whose first three passes fail when it arrives as one spatial cluster
Hard12 == [pts |-> Pts(<<6, 10, 3, 5, 9, 8, 11, 13, 4, 7, 16, 12>>,
                       <<3, 11, 4, 6, 7, 1, 9, 2, 8, 5, 10, 6>>),
           ed |-> 112, ey |-> 1]

\* two records of one place two days apart, and a far record on the day between
ScenarioBridge == [pts |-> Pts(<<0, 0, 5>>, <<0, 2, 1>>), ed |-> 112, ey |-> 1]

\* Hard8 and, far from it in space and time, two records of one place and day
Hard8WithPair ==
    [pts |-> Pts(<<0, 0, 1, 2, 3, 4, 5, 6, 20, 20>>, <<0, 0, 2, 0, 4, 1, 30, 3, 10, 10>>),
     ed |-> 112, ey |-> 1]

Scenarios == {ScenarioA, ScenarioB, ScenarioC, ScenarioE, ScenarioBridge,
              Hard8, Hard8WithPair, Hard11, Hard12}

Cases == SmallCases \cup Scenarios

\* what IterativeSpatiotemporalClustering.transform is called with: the case's clean
\* records labelled by SpatialDBSCAN, labelled as one spatial cluster under an index
\* with gaps (rows filtered from a larger frame), or (a broken composition) without
\* spatial_cluster_id
Labelled(c, how) ==
    LET F == CleanFrame(c.pts)
    IN IF how = "dbscan" /\ F.rows # <<>> THEN SpatialDBSCANTransform(F, c.ed, 0).ret
       ELSE IF how = "none" THEN F
       ELSE Frame([i \in 1..Len(F.rows) |-> [F.rows[i] EXCEPT !.sp = 0, !.idx = 2 * i]],
                  F.cols \cup {SP})

\* the budgets tried: none, few, the default, and one as large as the largest record set
MaxIterVals == ((0 - 1)..MaxIter) \cup {DefaultMaxIter, Len(Hard12.pts)}

\* a frame that went through an earlier run with wider radii, which left every record in
\* temporal cluster 0 and spatiotemporal cluster 0, and then through SpatialDBSCAN again
Stale(c) ==
    LET F == Labelled(c, "dbscan")
    IN Frame([i \in 1..Len(F.rows) |-> [F.rows[i] EXCEPT !.t = 0, !.stc = 0]],
             F.cols \cup {TC, STC})

ControllerInputs ==
    {[F |-> Labelled(c, "dbscan"), ed |-> c.ed, ey |-> c.ey] : c \in Cases}
    \cup {[F |-> Labelled(c, "zero"), ed |-> c.ed, ey |-> c.ey] : c \in Cases}
    \cup {[F |-> Labelled(c, "none"), ed |-> c.ed, ey |-> c.ey] : c \in Scenarios}
    \cup {[F |-> Stale(c), ed |-> c.ed, ey |-> c.ey] : c \in Scenarios}

\* what ValidateSpatiotemporalConnectivity.transform is called with: small record sets
\* under every labelling by two spatiotemporal ids
AllCols == DataCols \cup {SP, TC, STC}

StcLabelled(pts, lab) ==
    Frame([i \in 1..Len(pts) |-> Row(i - 1, i, 0, pts[i][1], pts[i][2], 0, 0, lab[i])],
          AllCols)

\* 12 two-row groups, each split on both axes: more offenders than a message lists
ManyBad ==
    Frame([i \in 1..24 |-> Row(i - 1, i, 0, IF i % 2 = 0 THEN 0 ELSE 2,
                               IF i % 2 = 0 THEN 0 ELSE 20, 0, 0, (i - 1) \div 2)],
          AllCols)

\* 10 spatially split groups and one temporally split group
TenBad ==
    Frame([i \in 1..22 |-> Row(i - 1, i, 0, IF i % 2 = 0 \/ i > 20 THEN 0 ELSE 2,
                               IF i % 2 = 0 \/ i <= 20 THEN 0 ELSE 20, 0, 0, (i - 1) \div 2)],
          AllCols)

ValidatorInputs ==
    {[F |-> StcLabelled(p, lab), ed |-> 112, ey |-> 1] :
        <<p, lab>> \in UNION {[1..n -> LonVals \X TsVals] \X [1..n -> 0..1] : n \in 0..MaxRecs}}
    \cup {[F |-> StcLabelled(c.pts, [i \in 1..Len(c.pts) |-> 0]), ed |-> c.ed, ey |-> c.ey] :
            c \in Scenarios}
    \cup {[F |-> CleanFrame(c.pts), ed |-> c.ed, ey |-> c.ey] : c \in Scenarios}
    \cup {[F |-> ManyBad, ed |-> 1, ey |-> 1], [F |-> TenBad, ed |-> 1, ey |-> 1]}

\* what Preprocessor.transform is called with: raw rows, each a good row with at most
\* one field replaced by a boundary, out-of-range or missing value
GoodRaw == [id |-> 1, lat |-> 0, lon |-> 0, ts |-> 0]

RawVals ==
    LET base == {[GoodRaw EXCEPT !.id = i] : i \in {1, 2}}
    IN base
       \cup {[b EXCEPT !.lat = v] : b \in base, v \in {NA, 0 - 91, 0 - 90, 90, 91}}
       \cup {[b EXCEPT !.lon = v] : b \in base, v \in {NA, 0 - 181, 0 - 180, 180, 181}}
       \cup {[b EXCEPT !.ts = v] : b \in base,
                v \in {NA, BadDate, MinYearStart - 1, MinYearStart, Now, Now + 1}}

RawFrame(raw, cols) ==
    Frame([i \in 1..Len(raw) |->
             Row(i - 1, raw[i].id, raw[i].lat, raw[i].lon, raw[i].ts, NA, NA, NA)], cols)

\* tests/test_pipeline.py 11-26, with the dates as half-days relative to Now
TestRaw ==
    <<[id |-> 1, lat |-> 0, lon |-> 0, ts |-> 0],
      [id |-> 1, lat |-> 0, lon |-> 0, ts |-> 0],
      [id |-> 2, lat |-> 95, lon |-> 50, ts |-> 0],
      [id |-> 3, lat |-> 10, lon |-> 190, ts |-> MinYearStart - 73000],
      [id |-> 4, lat |-> 0 - 20, lon |-> 200, ts |-> 4],
      [id |-> 5, lat |-> 12, lon |-> 12, ts |-> 6]>>

PreprocessorInputs ==
    {RawFrame(r, DataCols) : r \in UNION {[1..n -> RawVals] : n \in 0..MaxRecs}}
    \cup {RawFrame(TestRaw, DataCols)}
    \cup {RawFrame(TestRaw, cs) : cs \in SUBSET DataCols}

\* what the pipeline of create_pipeline is called with: the clean cases, and cases
\* with a duplicated event, an out-of-range row and a future date among the records
WithDefects(c) ==
    LET F == CleanFrame(c.pts)
        n == Len(F.rows)
    IN Frame([i \in 1..(n + 3) |->
                IF i <= n THEN F.rows[i]
                ELSE IF i = n + 1 THEN [F.rows[1] EXCEPT !.idx = n, !.lon = 1]
                ELSE IF i = n + 2 THEN Row(n + 1, n + 2, 91, 0, 0, NA, NA, NA)
                ELSE Row(n + 2, n + 3, 0, 0, Now + 1, NA, NA, NA)],
             DataCols)

PipelineInputs ==
    {[F |-> CleanFrame(c.pts), ed |-> c.ed, ey |-> c.ey] : c \in Cases}
    \cup {[F |-> WithDefects(c), ed |-> c.ed, ey |-> c.ey] : c \in Scenarios}
    \cup {[F |-> RawFrame(<<[GoodRaw EXCEPT !.lat = 91]>>, DataCols), ed |-> 1, ey |-> 1]}
    \cup {[F |-> RawFrame(<<>>, {ID, LAT}), ed |-> 1, ey |-> 1]}

----------------------------------------------------------------------------
(* The state machine: one action per transform call *)

Returned == [status |-> "returned", error |-> NoError]
Raised(e) == [status |-> "raised", error |-> e]
Pending == [status |-> "none", error |-> NoError]

Start(en, p, F, ed, ey, mi) ==
    /\ entry = en /\ pc = p /\ X = F
    /\ given = NoFrame /\ given_after = NoFrame /\ ctl_in = NoFrame
    /\ e_dist = ed /\ e_days = ey /\ max_iter = mi
    /\ iteration = 0 /\ last_error = NoError /\ errs = <<>> /\ steps = <<>>
    /\ log = <<>> /\ nerr = 0 /\ outcome = Pending

Init ==
    \/ \E c \in PipelineInputs :
          Start("pipeline", "preprocessor", c.F, c.ed, c.ey, DefaultMaxIter)
    \/ \E F \in PreprocessorInputs :
          Start("preprocessor", "preprocessor", F, 1, 1, DefaultMaxIter)
    \/ \E c \in ControllerInputs, mi \in MaxIterVals :
          Start("controller", "iterative_spatiotemporal", c.F, c.ed, c.ey, mi)
    \/ \E c \in ValidatorInputs :
          Start("validator", "validate_connectivity", c.F, c.ed, c.ey, DefaultMaxIter)

\* a transform call outside any handler: its error propagates, its result flows on
Call(r, next) ==
    /\ given' = X
    /\ given_after' = r.arg
    /\ IF r.err.kind # "none"
       THEN /\ pc' = "raised"
            /\ outcome' = Raised(r.err)
            /\ nerr' = nerr + 1
            /\ X' = X
       ELSE /\ pc' = next
            /\ outcome' = IF next = "returned" THEN Returned ELSE outcome
            /\ nerr' = nerr
            /\ X' = r.ret

\* where the pipeline goes on after a step (Pipeline.fit_transform, pipeline.py 498-506);
\* a transformer called on its own returns
After(step) ==
    IF entry # "pipeline" THEN "returned"
    ELSE CASE step = "preprocessor" -> "spatial_dbscan"
           [] step = "spatial_dbscan" -> "iterative_spatiotemporal"
           [] step = "iterative_spatiotemporal" -> "validate_connectivity"
           [] OTHER -> "returned"

Preprocess ==
    /\ pc = "preprocessor"
    /\ Call(PreprocessorTransform(X, Now, nerr + 1), After("preprocessor"))
    /\ UNCHANGED <<entry, ctl_in, e_dist, e_days, max_iter, iteration, last_error,
                   errs, steps, log>>

SpatialCluster ==
    /\ pc = "spatial_dbscan"
    /\ Call(SpatialDBSCANTransform(X, e_dist, nerr + 1), After("spatial_dbscan"))
    /\ UNCHANGED <<entry, ctl_in, e_dist, e_days, max_iter, iteration, last_error,
                   errs, steps, log>>

\* IterativeSpatiotemporalClustering.transform, pipeline.py 385-389 and 422-424:
\* copy, last_error = None, and either the first pass or, with no pass to run, the
\* code after the loop
ControllerEnter ==
    /\ pc = "iterative_spatiotemporal"
    /\ LET r == ControllerCopy(X)
       IN /\ given' = X
          /\ given_after' = r.arg
          /\ ctl_in' = X
          /\ X' = r.ret
    /\ last_error' = NoError
    /\ IF InRangeOfLoop(1, max_iter)
       THEN /\ iteration' = 1
            /\ pc' = "temporal_dbscan"
            /\ outcome' = outcome
       ELSE /\ iteration' = iteration
            /\ pc' = After("iterative_spatiotemporal")
            /\ outcome' = IF entry = "pipeline" THEN outcome ELSE Returned
    /\ UNCHANGED <<entry, e_dist, e_days, max_iter, errs, steps, log, nerr>>

\* a variant in which the validator is tried right after the combiner, before the two
\* spatiotemporal reconnects of the pass have run
SubStepValidatingEarly(name, r, next) ==
    /\ pc = name
    /\ Call(r, IF name = "combiner" THEN "validator" ELSE next)
    /\ steps' = Append(steps, name)
    /\ UNCHANGED <<entry, ctl_in, e_dist, e_days, max_iter, iteration, last_error,
                   errs, log>>

\* one sub-step of a pass: pipeline.py 390-395
SubStep(name, r, next) ==
    /\ pc = name
    /\ Call(r, next)
    /\ steps' = Append(steps, name)
    /\ UNCHANGED <<entry, ctl_in, e_dist, e_days, max_iter, iteration, last_error,
                   errs, log>>

TemporalStep ==
    SubStep("temporal_dbscan", TemporalDBSCANTransform(X, e_days, nerr + 1),
            "spatial_reconnect")

SpatialReconnectStep ==
    SubStep("spatial_reconnect", SpatialReconnectWithinTemporalTransform(X, e_dist, nerr + 1),
            "temporal_recompute")

TemporalRecomputeStep ==
    SubStep("temporal_recompute", TemporalDBSCANRecomputeTransform(X, e_days, nerr + 1),
            "combiner")

CombineStep ==
    SubStep("combiner", CombineClustersTransform(X, nerr + 1), "spatial_reconnect_st")

SpatialReconnectStStep ==
    SubStep("spatial_reconnect_st",
            SpatialReconnectWithinSpatiotemporalTransform(X, e_dist, nerr + 1),
            "temporal_reconnect_st")

TemporalReconnectStStep ==
    SubStep("temporal_reconnect_st",
            TemporalReconnectWithinSpatiotemporalTransform(X, e_days, nerr + 1),
            "validator")

\* a variant without the return inside try: after a pass that validates the loop goes
\* on, and what follows the loop raises a remembered error or returns
ValidateStepWithoutReturn ==
    /\ pc = "validator"
    /\ log' = Append(log, LogRecord(X, iteration, max_iter, e_dist, e_days))
    /\ steps' = Append(steps, "validator")
    /\ LET r == ValidatorTransform(X, e_dist, e_days, nerr + 1)
       IN /\ given' = X
          /\ given_after' = r.arg
          /\ IF r.err.kind # "none" /\ ~CaughtByController(r.err)
             THEN /\ pc' = "raised"
                  /\ outcome' = Raised(r.err)
                  /\ nerr' = nerr + 1
                  /\ UNCHANGED <<last_error, errs, iteration>>
             ELSE /\ nerr' = IF r.err.kind = "none" THEN nerr ELSE nerr + 1
                  /\ errs' = IF r.err.kind = "none" THEN errs ELSE Append(errs, r.err)
                  /\ last_error' = IF r.err.kind = "none" THEN last_error
                                   ELSE KeepError(last_error, r.err)
                  /\ IF InRangeOfLoop(iteration + 1, max_iter)
                     THEN /\ iteration' = iteration + 1
                          /\ pc' = "temporal_dbscan"
                          /\ outcome' = outcome
                     ELSE /\ iteration' = iteration
                          /\ IF last_error'.kind # "none"
                             THEN pc' = "raised" /\ outcome' = Raised(last_error')
                             ELSE /\ pc' = After("iterative_spatiotemporal")
                                  /\ outcome' = IF entry = "pipeline" THEN outcome
                                                ELSE Returned
    /\ UNCHANGED <<entry, X, ctl_in, e_dist, e_days, max_iter>>

\* the end of a pass: pipeline.py 397-424. The statistics are logged, the validator
\* runs inside try; on success X is returned; a caught error becomes last_error and
\* the loop goes on, or, after the last pass, last_error is raised
ValidateStep ==
    /\ pc = "validator"
    /\ log' = Append(log, LogRecord(X, iteration, max_iter, e_dist, e_days))
    /\ steps' = Append(steps, "validator")
    /\ LET r == ValidatorTransform(X, e_dist, e_days, nerr + 1)
       IN /\ given' = X
          /\ given_after' = r.arg
          /\ IF r.err.kind = "none"
             THEN /\ pc' = After("iterative_spatiotemporal")
                  /\ outcome' = IF entry = "pipeline" THEN outcome ELSE Returned
                  /\ UNCHANGED <<last_error, errs, iteration, nerr>>
             ELSE IF ~CaughtByController(r.err)
             THEN /\ pc' = "raised"
                  /\ outcome' = Raised(r.err)
                  /\ nerr' = nerr + 1
                  /\ UNCHANGED <<last_error, errs, iteration>>
             ELSE /\ nerr' = nerr + 1
                  /\ errs' = Append(errs, r.err)
                  /\ last_error' = KeepError(last_error, r.err)
                  /\ IF InRangeOfLoop(iteration + 1, max_iter)
                     THEN /\ iteration' = iteration + 1
                          /\ pc' = "temporal_dbscan"
                          /\ outcome' = outcome
                     ELSE /\ iteration' = iteration
                          /\ pc' = "raised"
                          /\ outcome' = Raised(last_error')
    /\ UNCHANGED <<entry, X, ctl_in, e_dist, e_days, max_iter>>

\* the pipeline's last step, or the validator called on its own
FinalValidate ==
    /\ pc = "validate_connectivity"
    /\ Call(ValidatorTransform(X, e_dist, e_days, nerr + 1), After("validate_connectivity"))
    /\ UNCHANGED <<entry, ctl_in, e_dist, e_days, max_iter, iteration, last_error,
                   errs, steps, log>>

Next ==
    \/ Preprocess
    \/ SpatialCluster
    \/ ControllerEnter
    \/ TemporalStep
    \/ SpatialReconnectStep
    \/ TemporalRecomputeStep
    \/ CombineStep
    \/ SpatialReconnectStStep
    \/ TemporalReconnectStStep
    \/ ValidateStep
    \/ FinalValidate

Spec == Init /\ [][Next]_vars

----------------------------------------------------------------------------
(* Notions the properties are stated in *)

Terminal == pc \in {"returned", "raised"}

\* the positions of the members of spatiotemporal group g
Members(rows, g) == {i \in 1..Len(rows) : rows[i].stc = g}

StcIds(rows) == {rows[i].stc : i \in 1..Len(rows)}

\* any two members of S are joined by a chain of members of S whose consecutive members
\* are near each other on the axis: no part of S is cut off from the rest of S
ChainConnected(rows, S, axis, eps) ==
    \A T \in SUBSET S :
        (T # {} /\ T # S) =>
            \E a \in T, b \in S \ T : Near(rows[a], rows[b], axis, eps)

\* the members of S joined to i by such a chain
RECURSIVE ChainOf(_, _, _, _, _)
ChainOf(rows, S, C, axis, eps) ==
    LET D == C \cup {b \in S : \E a \in C : Near(rows[a], rows[b], axis, eps)}
    IN IF D = C THEN C ELSE ChainOf(rows, S, D, axis, eps)

\* the number of pieces S falls into
Pieces(rows, S, axis, eps) == Cardinality({ChainOf(rows, S, {i}, axis, eps) : i \in S})

\* the spatiotemporal groups that are not chain-connected on the axis
BrokenGroups(rows, axis, eps) ==
    {g \in StcIds(rows) : ~ChainConnected(rows, Members(rows, g), axis, eps)}

ConnectivityInvariant(F, ed, ey) ==
    /\ STC \in F.cols
    /\ BrokenGroups(F.rows, "spatial", ed) = {}
    /\ BrokenGroups(F.rows, "temporal", ey) = {}

\* the data of a frame without its cluster-id columns
Data(F) == [i \in 1..Len(F.rows) |->
              [idx |-> F.rows[i].idx, id |-> F.rows[i].id, lat |-> F.rows[i].lat,
               lon |-> F.rows[i].lon, ts |-> F.rows[i].ts]]

\* the cluster-id columns of a frame
Labels(F) == [i \in 1..Len(F.rows) |-> <<F.rows[i].sp, F.rows[i].t, F.rows[i].stc>>]

Max0(n) == IF n < 0 THEN 0 ELSE n

\* the number of passes the controller has started
Passes == Cardinality({k \in 1..Len(steps) : steps[k] = "temporal_dbscan"})

----------------------------------------------------------------------------
(* Properties *)

\* C1: every record set the pipeline of create_pipeline returns satisfies the
\* connectivity invariant: in every final spatiotemporal group any two members are
\* joined by a chain of members within e_dist km of each other, and by a chain of
\* members within e_days days of each other.
C1_PipelineOutputConnected ==
    (entry = "pipeline" /\ pc = "returned") => ConnectivityInvariant(X, e_dist, e_days)

\* the pipeline returned after a pass that failed validation, with a group of two
C1_Witness ==
    /\ entry = "pipeline" /\ pc = "returned" /\ errs # <<>>
    /\ \E g \in StcIds(X.rows) : Cardinality(Members(X.rows, g)) >= 2

\* the steps left in a pass before pc, and the steps left in the whole run: a bound
\* on what remains that every step must lower
StepsLeft(p) ==
    CASE p = "temporal_dbscan" -> 7
      [] p = "spatial_reconnect" -> 6
      [] p = "temporal_recompute" -> 5
      [] p = "combiner" -> 4
      [] p = "spatial_reconnect_st" -> 3
      [] p = "temporal_reconnect_st" -> 2
      [] p = "validator" -> 1
      [] OTHER -> 0

Measure ==
    CASE pc \in {"returned", "raised"} -> 0
      [] pc = "validate_connectivity" -> 1
      [] pc = "iterative_spatiotemporal" -> 7 * Max0(max_iter) + 3
      [] pc = "spatial_dbscan" -> 7 * Max0(max_iter) + 4
      [] pc = "preprocessor" -> 7 * Max0(max_iter) + 5
      [] OTHER -> 7 * (max_iter - iteration) + StepsLeft(pc) + 1

C2_Bounded ==
    (entry = "controller" /\ SP \in X.cols) =>
        /\ Passes <= Max0(max_iter)
        /\ iteration <= Max0(max_iter)
        /\ Len(steps) <= 7 * Max0(max_iter)
        /\ Measure >= 0
        /\ (pc = "raised" =>
               /\ errs # <<>>
               /\ outcome.error \in Range(errs)
               /\ iteration = max_iter)
        /\ (pc = "returned" => outcome = Returned)
        /\ (~Terminal => pc \in {"iterative_spatiotemporal", "temporal_dbscan",
                                 "spatial_reconnect", "temporal_recompute", "combiner",
                                 "spatial_reconnect_st", "temporal_reconnect_st",
                                 "validator"})

\* C2: the controller, given a record set with spatial_cluster_id, starts at most
\* max_iter passes of at most 7 steps each; every step it takes lowers the bounded
\* count of steps left, so no run goes on forever; and it ends returning a record set
\* or, after pass max_iter, raising an error of its validator.
C2_TerminatesWithinMaxIter ==
    []C2_Bounded /\ [][Measure' < Measure]_vars

\* the controller ended in the pass numbered max_iter, after at least two passes
C2_Witness ==
    /\ entry = "controller" /\ SP \in X.cols /\ Terminal /\ Passes >= 2
    /\ Passes = max_iter

\* C3 (as claimed): whatever max_iter is, a record set the controller returns has
\* passed the validator.
C3_ReturnsOnlyValidated ==
    (entry = "controller" /\ pc = "returned") =>
        ValidatorTransform(X, e_dist, e_days, 0).err.kind = "none"

\* C4: when validation fails in each of the max_iter >= 1 passes, the controller raises
\* the very error object its validator produced in the last pass, and returns nothing.
C4_RaisesLastError ==
    (entry \in {"controller", "pipeline"} /\ max_iter >= 1 /\ Len(errs) = max_iter) =>
        /\ pc = "raised"
        /\ outcome = Raised(errs[max_iter])
        /\ \A k \in 1..(max_iter - 1) : errs[k].serial # outcome.error.serial

\* three passes failed at max_iter = 3
C4_Witness ==
    /\ entry = "controller" /\ max_iter = 3 /\ Len(errs) = 3 /\ pc = "raised"

\* C5: after the Sanitizer no record is dropped, duplicated or altered: every step
\* other than the Preprocessor (the Spatial Clusterer, the controller's copy, each
\* sub-step of each pass, the validators) leaves the records (index, event id,
\* coordinates, date) as they were, in the same order; and every record the pipeline
\* returns carries a spatiotemporal_cluster_id.
C5_RecordsPreserved ==
    /\ []((entry = "pipeline" /\ pc = "returned") =>
             /\ STC \in X.cols
             /\ \A i \in 1..Len(X.rows) : X.rows[i].stc # NA /\ X.rows[i].stc >= 0)
    /\ [][(pc # "preprocessor") => (Data(X') = Data(X))]_vars

\* the combiner has run on a frame of several records whose index is not 0..n-1, and
\* the run ended with a record set returned
C5_Witness ==
    /\ entry = "controller" /\ pc = "returned" /\ "combiner" \in Range(steps)
    /\ Len(X.rows) >= 2 /\ \E i \in 1..Len(X.rows) : X.rows[i].idx # i - 1

\* C6: the validator called on its own leaves the caller's frame as it was, whether it
\* passes or fails; and on a frame that satisfies the connectivity invariant it raises
\* nothing and returns the three cluster-id columns as they came, record by record.
C6_ValidatorReadOnly ==
    (entry = "validator" /\ Terminal) =>
        /\ given_after = given
        /\ ConnectivityInvariant(given, e_dist, e_days) =>
              (pc = "returned" /\ Labels(X) = Labels(given) /\ Data(X) = Data(given))

\* the validator passed a frame of two groups whose ids are not in order of appearance
C6_Witness ==
    /\ entry = "validator" /\ pc = "returned" /\ Len(X.rows) >= 2
    /\ X.rows[1].stc = 1 /\ X.rows[2].stc = 0

\* C7: on a frame that has the spatiotemporal column the validator raises if and only
\* if some group is not chain-connected in space under e_dist or in time under e_days;
\* and when a group is cut in space the message has the "spatially disconnected" clause.
C7_ValidatorRaisesIffDisconnected ==
    (entry = "validator" /\ Terminal /\ STC \in given.cols) =>
        /\ (pc = "raised") <=> ~ConnectivityInvariant(given, e_dist, e_days)
        /\ (BrokenGroups(given.rows, "spatial", e_dist) # {}) =>
              (/\ outcome.error.kind = "ValueError:connectivity"
               /\ \E k \in 1..Len(outcome.error.parts) :
                     outcome.error.parts[k].axis = "spatially disconnected")

\* scenario B: two records 2 degrees apart in one group, e_dist = 1
C7_Witness ==
    /\ entry = "validator" /\ pc = "raised" /\ Len(given.rows) = 2 /\ e_dist = 1
    /\ given.rows[1].stc = given.rows[2].stc
    /\ ArcDeg(given.rows[1], given.rows[2]) = 2
    /\ given.rows[1].ts = given.rows[2].ts

\* the clause of an axis in a message, as a set (empty when there is none)
ClausesOf(err, axis) == {k \in 1..Len(err.parts) : err.parts[k].axis = axis}

\* a clause says how many groups are broken on its axis and lists at most 10 of them,
\* each once, with its id, its number of pieces and its size
ClauseTrue(cl, rows, axis, eps) ==
    LET broken == BrokenGroups(rows, axis, eps)
    IN /\ cl.count = Cardinality(broken)
       /\ Len(cl.examples) <= MaxExamples
       /\ Len(cl.examples) = (IF cl.count < MaxExamples THEN cl.count ELSE MaxExamples)
       /\ \A j \in 1..Len(cl.examples) :
             /\ cl.examples[j].id \in broken
             /\ cl.examples[j].size = Cardinality(Members(rows, cl.examples[j].id))
             /\ cl.examples[j].comps
                   = Pieces(rows, Members(rows, cl.examples[j].id), axis, eps)
             /\ \A i \in 1..(j - 1) : cl.examples[i].id # cl.examples[j].id

\* C8: a connectivity failure of the validator is one error whose message has a spatial
\* clause iff some group is cut in space and a temporal clause iff some group is cut
\* in time, at most one of each; each clause gives the number of groups cut on its axis
\* and lists at most 10 of them with id, number of pieces and size.
C8_MessageClauses ==
    (entry = "validator" /\ pc = "raised" /\ outcome.error.kind = "ValueError:connectivity") =>
        LET e  == outcome.error
            sc == ClausesOf(e, "spatially disconnected")
            tc == ClausesOf(e, "temporally disconnected")
        IN /\ nerr = 1
           /\ Len(e.parts) = Cardinality(sc) + Cardinality(tc)
           /\ Cardinality(sc) = (IF BrokenGroups(given.rows, "spatial", e_dist) # {} THEN 1 ELSE 0)
           /\ Cardinality(tc) = (IF BrokenGroups(given.rows, "temporal", e_days) # {} THEN 1 ELSE 0)
           /\ \A k \in sc : ClauseTrue(e.parts[k], given.rows, "spatial", e_dist)
           /\ \A k \in tc : ClauseTrue(e.parts[k], given.rows, "temporal", e_days)

\* twelve groups cut on both axes: both clauses, each counting 12 and listing 10
C8_Witness ==
    /\ entry = "validator" /\ pc = "raised" /\ Len(outcome.error.parts) = 2
    /\ \A k \in 1..2 : /\ outcome.error.parts[k].count = 12
                       /\ Len(outcome.error.parts[k].examples) = 10

\* C9: the controller retries only connectivity failures: every error it caught and
\* went on from is a connectivity failure of its validator; any other error ends the
\* run at once, raised to the caller as the object the failing step produced; and a
\* validator called without the spatiotemporal column raises, fatally.
C9_OnlyConnectivityRetried ==
    /\ \A k \in 1..Len(errs) : errs[k].kind = "ValueError:connectivity"
    /\ (pc = "raised" /\ outcome.error.kind # "ValueError:connectivity") =>
          /\ outcome.error.serial = nerr
          /\ outcome.error \notin Range(errs)
          /\ last_error # outcome.error
    /\ (entry = "validator" /\ Terminal /\ STC \notin given.cols) =>
          (pc = "raised" /\ outcome.error.kind = "ValueError:missing")

\* the controller was given a frame without spatial_cluster_id: the KeyError of its
\* first sub-step reached the caller in the first pass
C9_Witness ==
    /\ entry = "controller" /\ pc = "raised" /\ outcome.error.kind = "KeyError"
    /\ iteration = 1 /\ steps = <<"temporal_dbscan">> /\ max_iter > 1

\* the rows Preprocessor.transform is documented to keep: the first occurrence of its
\* event id, nothing missing, coordinates in range, a date from 1800 on and not after now
Kept(rows, today) ==
    {i \in 1..Len(rows) :
        /\ \A j \in 1..(i - 1) : rows[j].id # rows[i].id
        /\ rows[i].lat # NA /\ rows[i].lon # NA /\ rows[i].ts # NA
        /\ rows[i].lat >= 0 - 90 /\ rows[i].lat <= 90
        /\ rows[i].lon >= 0 - 180 /\ rows[i].lon <= 180
        /\ rows[i].ts # BadDate /\ rows[i].ts >= MinYearStart /\ rows[i].ts <= today}

\* C10: Preprocessor.transform returns exactly the input rows that are the first
\* occurrence of their event id and are valid, in input order, under the index 0..n-1;
\* so no event id occurs twice in the output.
C10_PreprocessorKeeps ==
    (entry = "preprocessor" /\ pc = "returned") =>
        LET kept == PosSeq(Len(given.rows), Kept(given.rows, Now), 1)
        IN /\ Len(X.rows) = Len(kept)
           /\ \A k \in 1..Len(kept) : X.rows[k] = [given.rows[kept[k]] EXCEPT !.idx = k - 1]
           /\ \A i, j \in 1..Len(X.rows) : (X.rows[i].id = X.rows[j].id) => i = j

\* the first row of an event is invalid and a later valid row of the same event is
\* dropped with it; or the test's six rows, of which rows 1 and 6 survive
C10_Witness ==
    /\ entry = "preprocessor" /\ pc = "returned"
    /\ \/ /\ Len(given.rows) = 2 /\ given.rows[1].id = given.rows[2].id
          /\ given.rows[1].lat = 91 /\ given.rows[2].lat = 0 /\ X.rows = <<>>
       \/ /\ Len(given.rows) = 6 /\ Len(X.rows) = 2
          /\ X.rows[1].id = 1 /\ X.rows[2].id = 5 /\ X.rows[2].idx = 1

\* C11: Preprocessor.transform on a frame that lacks required columns raises, as its
\* first and only effect, one error that names exactly the missing columns, each once:
\* nothing is returned, the frame in hand is the caller's, and the caller's frame is as
\* it was. With all four columns present no such error is raised.
C11_SchemaErrorNamesMissing ==
    (entry = "preprocessor" /\ Terminal) =>
        LET lacking == {ID, LAT, LON, DATE} \ given.cols
        IN /\ (lacking # {}) <=> (pc = "raised")
           /\ (pc = "raised") =>
                 /\ outcome.error.kind = "ValueError:columns"
                 /\ Range(outcome.error.missing) = lacking
                 /\ Len(outcome.error.missing) = Cardinality(lacking)
                 /\ nerr = 1
                 /\ X = given
                 /\ given_after = given

\* the test's six rows arrive with longitude1 and startdate missing: both are named
C11_Witness ==
    /\ entry = "preprocessor" /\ pc = "raised" /\ Len(given.rows) = 6
    /\ given.cols = {ID, LAT}
    /\ outcome.error.missing = <<LON, DATE>>

\* the classes of a labelling (a function on 1..n), as sets of positions
Classes(lab, M) == {{j \in M : lab[j] = lab[i]} : i \in M}

\* the classes of lab on M are the chain components of M: each class is chain-connected
\* and no two records of different classes are near each other
IsChainPartition(rows, lab, M, axis, eps) ==
    /\ \A C \in Classes(lab, M) : ChainConnected(rows, C, axis, eps)
    /\ \A i, j \in M : Near(rows[i], rows[j], axis, eps) => lab[i] = lab[j]

\* C12: what SpatialDBSCAN.transform hands to the controller: two records have the same
\* spatial_cluster_id iff a chain of records with consecutive members within e_dist km
\* joins them; every id is non-negative (no noise).
C12_SpatialGroupsAreChains ==
    (entry = "pipeline" /\ pc = "iterative_spatiotemporal") =>
        /\ SP \in X.cols
        /\ Data(X) = Data(given)
        /\ \A i \in 1..Len(X.rows) : X.rows[i].sp >= 0
        /\ IsChainPartition(X.rows, Column(X.rows, "sp"), 1..Len(X.rows), "spatial", e_dist)

\* three records in one spatial group whose first and last are farther apart than e_dist
C12_Witness ==
    /\ entry = "pipeline" /\ pc = "iterative_spatiotemporal" /\ Len(X.rows) = 3
    /\ X.rows[1].sp = X.rows[2].sp /\ X.rows[2].sp = X.rows[3].sp
    /\ ~SpatialNear(X.rows[1], X.rows[3], e_dist)

\* C13: what TemporalDBSCAN.transform returns: inside each spatial cluster two records
\* have the same temporal_cluster_id iff a chain of records of that spatial cluster
\* with consecutive day offsets at most e_days apart joins them, whatever the records of
\* the other spatial clusters are; no record keeps the initial -1; the records and
\* their spatial ids are as given.
C13_TemporalGroupsPerSpatialGroup ==
    (pc = "spatial_reconnect") =>
        /\ TC \in X.cols
        /\ Data(X) = Data(given)
        /\ Column(X.rows, "sp") = Column(given.rows, "sp")
        /\ \A i \in 1..Len(X.rows) : X.rows[i].t >= 0
        /\ \A s \in Range(Column(X.rows, "sp")) :
              IsChainPartition(X.rows, Column(X.rows, "t"),
                               {i \in 1..Len(X.rows) : X.rows[i].sp = s},
                               "temporal", e_days)

\* two records of one spatial cluster in different temporal clusters, and a record of
\* another spatial cluster whose date is within e_days of both
C13_Witness ==
    /\ pc = "spatial_reconnect"
    /\ \E i, j, k \in 1..Len(X.rows) :
          /\ X.rows[i].sp = X.rows[j].sp /\ X.rows[i].t # X.rows[j].t
          /\ X.rows[k].sp # X.rows[i].sp
          /\ TemporalNear(X.rows[k], X.rows[i], e_days)
          /\ TemporalNear(X.rows[k], X.rows[j], e_days)

\* the (spatial, temporal) pair of a row, and the first position showing the same pair
PairOf(r) == <<r.sp, r.t>>

FirstOf(rows, i) == CHOOSE j \in 1..i : /\ PairOf(rows[j]) = PairOf(rows[i])
                                        /\ \A h \in 1..(j - 1) : PairOf(rows[h]) # PairOf(rows[i])

\* C14: what CombineClusters.transform returns: the id of a record is the number of
\* distinct (spatial, temporal) pairs that appear before the first record of its own
\* pair, so equal ids mean equal pairs and the ids are 0..k-1 in order of first
\* appearance; the records, their order, their index and their spatial and temporal
\* ids are as given.
C14_CombineNumbersPairs ==
    (pc = "spatial_reconnect_st") =>
        /\ STC \in X.cols
        /\ Data(X) = Data(given)
        /\ Column(X.rows, "sp") = Column(given.rows, "sp")
        /\ Column(X.rows, "t") = Column(given.rows, "t")
        /\ \A i \in 1..Len(X.rows) :
              X.rows[i].stc
                 = Cardinality({j \in 1..(FirstOf(X.rows, i) - 1) : FirstOf(X.rows, j) = j})

\* a later pass: the frame came with old spatiotemporal ids and an index with gaps, and
\* a pair with a smaller spatial id appears after a pair with a larger one
C14_Witness ==
    /\ pc = "spatial_reconnect_st" /\ iteration >= 2 /\ STC \in given.cols
    /\ \E i \in 1..Len(X.rows) : X.rows[i].idx # i - 1
    /\ \E i, j \in 1..Len(X.rows) : i < j /\ X.rows[i].stc < X.rows[j].stc
                                          /\ X.rows[i].sp > X.rows[j].sp

\* directly linked: within e_dist km and within e_days days of each other
Linked(a, b) == SpatialNear(a, b, e_dist) /\ TemporalNear(a, b, e_days)

\* the records share the id of column f
SameId(rows, f, i, j) == rows[i][f] = rows[j][f]

\* C15: from the Spatial Clusterer on, through every sub-step of every pass and in
\* what the controller and the pipeline return, two directly linked records have the
\* same id in every cluster-id column the frame has: no splitter separates them. And
\* when the pipeline returns records that fall into sets of mutually linked records
\* (linked to a common record means linked), any two records of different sets far
\* from each other on both axes, its groups are exactly those sets.
C15_LinkedPairsStayTogether ==
    (entry \in {"pipeline", "controller"}) =>
        /\ \A i, j \in 1..Len(X.rows) :
              Linked(X.rows[i], X.rows[j]) =>
                 /\ (SP \in X.cols) => SameId(X.rows, "sp", i, j)
                 /\ (TC \in X.cols) => SameId(X.rows, "t", i, j)
                 /\ (STC \in X.cols) => SameId(X.rows, "stc", i, j)
        /\ (/\ entry = "pipeline" /\ pc = "returned"
            /\ \A i, j \in 1..Len(X.rows) :
                  \/ Linked(X.rows[i], X.rows[j])
                  \/ /\ ~SpatialNear(X.rows[i], X.rows[j], e_dist)
                     /\ ~TemporalNear(X.rows[i], X.rows[j], e_days)
            /\ \A i, j, k \in 1..Len(X.rows) :
                  (Linked(X.rows[i], X.rows[k]) /\ Linked(X.rows[k], X.rows[j]))
                     => Linked(X.rows[i], X.rows[j]))
           => \A i, j \in 1..Len(X.rows) :
                 SameId(X.rows, "stc", i, j) <=> Linked(X.rows[i], X.rows[j])

\* scenario C returned: four records, two groups of two linked records, the groups far
\* from each other on both axes
C15_Witness ==
    /\ entry = "pipeline" /\ pc = "returned" /\ Len(X.rows) = 4 /\ e_dist = 1 /\ e_days = 5
    /\ Linked(X.rows[1], X.rows[2]) /\ Linked(X.rows[3], X.rows[4])
    /\ X.rows[1].ts # X.rows[2].ts
    /\ ~SpatialNear(X.rows[2], X.rows[3], e_dist) /\ ~TemporalNear(X.rows[2], X.rows[3], e_days)
    /\ Column(X.rows, "stc") = <<0, 0, 1, 1>>

\* C17: every call of a component (the Preprocessor, SpatialDBSCAN, the controller's
\* copy, each of its six sub-steps, its validator, the final validator) leaves the frame
\* it was passed as it was before the call, whether it returns or raises.
C17_CallerFrameUnchanged ==
    [][given' = X /\ given_after' = X]_vars

\* SpatialReconnectWithinTemporal has just relabelled records: what it returned differs
\* from what it was given, and what it was given is still as it was
C17_Witness ==
    /\ pc = "temporal_recompute" /\ steps[Len(steps)] = "spatial_reconnect"
    /\ Column(X.rows, "sp") # Column(given.rows, "sp")
    /\ given_after = given

\* the order of a pass: the six sub-steps, then the validator
PassOrder ==
    <<"temporal_dbscan", "spatial_reconnect", "temporal_recompute", "combiner",
      "spatial_reconnect_st", "temporal_reconnect_st", "validator">>

\* C18: the calls the controller has made are always a prefix of the pass order
\* repeated: each pass runs the six sub-steps in the fixed order and then the validator
\* once, the validator is never called before the six sub-steps of its pass, and a
\* retry starts again at TemporalDBSCAN. The step about to run is the next of that
\* order, in the pass the loop counter says.
C18_FixedOrderWholePasses ==
    /\ \A k \in 1..Len(steps) : steps[k] = PassOrder[((k - 1) % 7) + 1]
    /\ (pc \in Range(PassOrder)) =>
          /\ pc = PassOrder[(Len(steps) % 7) + 1]
          /\ iteration = (Len(steps) \div 7) + 1
    /\ Len(log) = Cardinality({k \in 1..Len(steps) : steps[k] = "validator"})
    /\ Len(errs) <= Len(log)
    /\ (Len(errs) > 0 /\ pc \in Range(PassOrder)) => Len(steps) >= 7 * Len(errs)

\* a retry under way: the first pass failed validation and the second pass has run its
\* first three sub-steps
C18_Witness ==
    /\ entry = "controller" /\ Len(errs) = 1 /\ Len(steps) = 10 /\ pc = "combiner"
    /\ iteration = 2

\* where a run stands that returned from the controller after a pass
ReturnedAfterPass ==
    /\ entry = "controller" /\ pc = "returned" /\ steps # <<>>

\* C19: when the validator passes at the end of pass k the controller returns at once
\* the record set just validated: the step from a connected frame at the validator
\* leaves the loop with the frame, the counter and the caught errors as they are; a run
\* that returned did so right after the validator call of pass k <= max_iter, k - 1
\* failures before it, holding the frame the validator was given; and from SUCCESS no
\* further step is taken.
C19_StopsAtFirstSuccess ==
    /\ [](ReturnedAfterPass =>
             /\ steps[Len(steps)] = "validator"
             /\ Len(steps) = 7 * iteration
             /\ iteration <= max_iter
             /\ Len(errs) = iteration - 1
             /\ X = given
             /\ ConnectivityInvariant(X, e_dist, e_days))
    /\ [][/\ (pc = "validator" /\ ConnectivityInvariant(X, e_dist, e_days)) =>
                /\ pc' = After("iterative_spatiotemporal")
                /\ X' = X /\ iteration' = iteration /\ errs' = errs
                /\ last_error' = last_error
          /\ (pc = "returned") => (pc' = "returned")]_vars

\* success in the second of five passes: three passes are left unrun
C19_Witness ==
    /\ ReturnedAfterPass /\ max_iter = DefaultMaxIter /\ iteration = 2 /\ Len(steps) = 14
    /\ Len(errs) = 1

\* the splitter whose call has just returned, if any: its grouping columns, its axis
\* and radius, and the column it writes
SplitterDone ==
    IF steps = <<>> \/ pc = "raised" THEN "none"
    ELSE IF steps[Len(steps)] \in {"spatial_reconnect", "spatial_reconnect_st",
                                   "temporal_reconnect_st"}
    THEN steps[Len(steps)] ELSE "none"

SplitBy == IF SplitterDone = "spatial_reconnect" THEN <<"sp", "t">> ELSE <<"stc">>
SplitAxis == IF SplitterDone = "temporal_reconnect_st" THEN "temporal" ELSE "spatial"
SplitEps == IF SplitAxis = "temporal" THEN e_days ELSE e_dist
SplitTarget == IF SplitterDone = "spatial_reconnect" THEN "sp" ELSE "stc"

\* in the frame the splitter was given: the group of record i and its piece of it
GroupOfRec(i) ==
    {j \in 1..Len(given.rows) : KeyOf(given.rows[j], SplitBy) = KeyOf(given.rows[i], SplitBy)}

PieceOfRec(i) == ChainOf(given.rows, GroupOfRec(i), {i}, SplitAxis, SplitEps)

OldMax == SetMax({given.rows[i][SplitTarget] : i \in 1..Len(given.rows)})

Fresh(i) == X.rows[i][SplitTarget] > OldMax

\* C20: after a call of a splitter, in every group of the frame it was given: the
\* records of one connected piece have one id; exactly one piece has the group's id and
\* every other piece has an id greater than every id the column held at the start;
\* no such fresh id is on two pieces, of one group or of two; nothing but the written
\* column has changed.
C20_SplitterFreshIds ==
    (SplitterDone # "none") =>
        LET n == Len(given.rows)
        IN /\ Len(X.rows) = n
           /\ \A i \in 1..n :
                 /\ [X.rows[i] EXCEPT ![SplitTarget] = 0]
                       = [given.rows[i] EXCEPT ![SplitTarget] = 0]
                 /\ \A j \in PieceOfRec(i) : X.rows[j][SplitTarget] = X.rows[i][SplitTarget]
                 /\ Cardinality({PieceOfRec(j) : j \in {h \in GroupOfRec(i) :
                        X.rows[h][SplitTarget] = given.rows[h][SplitTarget]}}) = 1
                 /\ (X.rows[i][SplitTarget] # given.rows[i][SplitTarget]) => Fresh(i)
                 /\ \A j \in 1..n :
                       (Fresh(i) /\ X.rows[j][SplitTarget] = X.rows[i][SplitTarget])
                          => PieceOfRec(j) = PieceOfRec(i)

\* one call gave fresh ids to pieces of two different groups, and one group fell into
\* three pieces or more
C20_Witness ==
    /\ SplitterDone # "none"
    /\ \E i, j \in 1..Len(X.rows) :
          /\ Fresh(i) /\ Fresh(j) /\ GroupOfRec(i) # GroupOfRec(j)
    /\ \E i, j \in 1..Len(X.rows) :
          /\ Fresh(i) /\ Fresh(j) /\ GroupOfRec(i) = GroupOfRec(j)
          /\ X.rows[i][SplitTarget] # X.rows[j][SplitTarget]

\* C21: a splitter changes its own column only. SpatialReconnectWithinTemporal leaves
\* temporal_cluster_id and spatiotemporal_cluster_id of every record as given; the two
\* spatiotemporal reconnects leave spatial_cluster_id and temporal_cluster_id as
\* given; none changes a coordinate, a date, an event id, the index, the order or the
\* set of columns.
C21_SplitterWritesOwnColumn ==
    (SplitterDone # "none") =>
        /\ Data(X) = Data(given)
        /\ X.cols = given.cols
        /\ Column(X.rows, "t") = Column(given.rows, "t")
        /\ (SplitterDone = "spatial_reconnect") =>
              Column(X.rows, "stc") = Column(given.rows, "stc")
        /\ (SplitterDone # "spatial_reconnect") =>
              Column(X.rows, "sp") = Column(given.rows, "sp")

\* SpatialReconnectWithinSpatiotemporal has just split a group: spatiotemporal ids
\* changed
C21_Witness ==
    /\ SplitterDone = "spatial_reconnect_st"
    /\ Column(X.rows, "stc") # Column(given.rows, "stc")
    /\ Cardinality(Range(Column(X.rows, "sp"))) >= 2

\* C22: a splitter leaves the id of every member of a group that is a single record
\* or a single connected piece on the splitter's axis as it was; an id changes only in
\* a group that falls into several pieces.
C22_ConnectedGroupsUntouched ==
    (SplitterDone # "none") =>
        \A i \in 1..Len(given.rows) :
            (X.rows[i][SplitTarget] # given.rows[i][SplitTarget])
               => /\ Cardinality(GroupOfRec(i)) >= 2
                  /\ PieceOfRec(i) # GroupOfRec(i)

\* one call split a group and passed over a connected group of several records and a
\* group of one record, under an index that is not 0..n-1
C22_Witness ==
    /\ SplitterDone # "none"
    /\ \E i, j, k \in 1..Len(X.rows) :
          /\ X.rows[i][SplitTarget] # given.rows[i][SplitTarget]
          /\ Cardinality(GroupOfRec(j)) >= 2 /\ PieceOfRec(j) = GroupOfRec(j)
          /\ GroupOfRec(k) = {k}
    /\ X.rows[1].idx # 0

\* the frame with every spatiotemporal id replaced by v, and the frame without the column
WithStc(F, v) ==
    Frame([i \in 1..Len(F.rows) |-> [F.rows[i] EXCEPT !.stc = v]], F.cols \cup {STC})

WithoutStc(F) ==
    Frame([i \in 1..Len(F.rows) |-> [F.rows[i] EXCEPT !.stc = NA]], F.cols \ {STC})

\* C23: what CombineClusters.transform returns does not depend on spatiotemporal ids
\* the frame came with: the same frame without the column, or with other ids in it,
\* gives the same result, and applying the combiner to its own result changes nothing.
\* So two records of one (spatial, temporal) pair have one id after the combiner of a
\* later pass even when a spatiotemporal reconnect of the pass before had split them.
C23_CombineForgetsOldIds ==
    (pc = "spatial_reconnect_st") =>
        /\ CombineClustersTransform(WithoutStc(given), 0).ret = X
        /\ CombineClustersTransform(WithStc(given, 7), 0).ret = X
        /\ CombineClustersTransform(X, 0).ret = X
        /\ \A i, j \in 1..Len(X.rows) :
              (PairOf(X.rows[i]) = PairOf(X.rows[j])) => SameId(X.rows, "stc", i, j)

\* the combiner of a second pass or later dropped the ids the frame came with from the
\* pass before and numbered the pairs afresh
C23_Witness ==
    /\ pc = "spatial_reconnect_st" /\ iteration >= 2 /\ STC \in given.cols
    /\ Column(X.rows, "stc") # Column(given.rows, "stc")

\* the frame with every temporal id replaced by v
WithT(F, v) ==
    Frame([i \in 1..Len(F.rows) |-> [F.rows[i] EXCEPT !.t = v]], F.cols \cup {TC})

\* C24: TemporalDBSCANRecompute.transform and TemporalDBSCAN.transform are one operation.
\* Whenever either of them has just run inside a pass, the other one gives the same
\* frame on the same argument and the same e_days, and both give that frame again when
\* the temporal ids the argument carried are replaced by other values.
C24_RecomputeIsTemporalDBSCAN ==
    /\ (pc = "combiner") =>
           /\ TemporalDBSCANTransform(given, e_days, 0).ret = X
           /\ TemporalDBSCANTransform(WithT(given, 7), e_days, 0).ret = X
           /\ TemporalDBSCANRecomputeTransform(WithT(given, 7), e_days, 0).ret = X
    /\ (pc = "spatial_reconnect") =>
           /\ TemporalDBSCANRecomputeTransform(given, e_days, 0).ret = X
           /\ TemporalDBSCANRecomputeTransform(WithT(given, 7), e_days, 0).ret = X
           /\ TemporalDBSCANTransform(WithT(given, 7), e_days, 0).ret = X

\* the recompute ran on a frame whose temporal ids, left by the first temporal step and
\* a spatial split, differ from the ones it wrote
C24_Witness ==
    /\ pc = "combiner" /\ TC \in given.cols
    /\ Column(X.rows, "t") # Column(given.rows, "t")
    /\ Column(X.rows, "sp") = Column(given.rows, "sp")

\* the number of distinct spatial ids when pass k began: what the controller was given,
\* or what the pass before left
SpatialAtStart(k) ==
    IF k = 1 THEN NUnique(ctl_in.rows, "sp") ELSE log[k - 1].spatial_n

\* what the rest of a pass makes of frame F once SpatialReconnectWithinTemporal is done
RestOfPass(F) ==
    LET a == TemporalDBSCANRecomputeTransform(F, e_days, 0).ret
        b == CombineClustersTransform(a, 0).ret
        c == SpatialReconnectWithinSpatiotemporalTransform(b, e_dist, 0).ret
        d == TemporalReconnectWithinSpatiotemporalTransform(c, e_days, 0).ret
    IN ValidatorTransform(d, e_dist, e_days, 0)

\* C25: a pass of the controller that fails validation has more distinct spatial ids at
\* its end than at its start, and a pass in which SpatialReconnectWithinTemporal wrote
\* no spatial id passes validation.
C25_FailedPassSplitsSpatially ==
    /\ \A k \in 1..Len(errs) : k <= Len(log) /\ log[k].spatial_n > SpatialAtStart(k)
    /\ (pc = "temporal_recompute" /\ Column(X.rows, "sp") = Column(given.rows, "sp")) =>
           RestOfPass(X).err.kind = "none"

\* a second pass failed as well, each of the two with more spatial ids than it began with
C25_Witness ==
    /\ Len(errs) >= 2 /\ Len(log) >= 2
    /\ log[2].spatial_n > log[1].spatial_n
    /\ log[1].spatial_n > NUnique(ctl_in.rows, "sp")

\* EXHAUSTED: the controller raised the error it caught in its last pass
Exhausted ==
    /\ pc = "raised" /\ errs # <<>> /\ outcome.error = errs[Len(errs)]

\* C26: a controller given N >= 1 records has fewer than N failed passes and never
\* begins a pass beyond the N-th; with max_iter >= N (and the spatial ids it needs) it
\* ends by returning, and it ends EXHAUSTED only with max_iter < N.
C26_ConvergesWithinRecordCount ==
    (ctl_in # NoFrame /\ Len(ctl_in.rows) >= 1) =>
        /\ Len(errs) < Len(ctl_in.rows)
        /\ iteration <= Len(ctl_in.rows)
        /\ Exhausted => (1 <= max_iter /\ max_iter < Len(ctl_in.rows))
        /\ (Terminal /\ max_iter >= Len(ctl_in.rows) /\ SP \in ctl_in.cols) =>
               /\ pc = "returned"
               /\ Len(log) = Len(errs) + 1

\* a budget as large as the record set, three failed passes, and success in the fourth
C26_Witness ==
    /\ entry = "controller" /\ pc = "returned"
    /\ max_iter >= Len(ctl_in.rows) /\ Len(errs) = 3 /\ iteration = 4

\* the clauses of an error are all about the spatial axis
OnlySpatialClauses(e) ==
    \A j \in 1..Len(e.parts) : e.parts[j].axis = "spatially disconnected"

\* C27: when a pass of the controller reaches its validator, every spatiotemporal group
\* is in one piece on the time axis under e_days. So every logged temporal_bad count is
\* 0, and an error the controller caught, or one a controller or pipeline run ended
\* with, has no "temporally disconnected" clause.
C27_TemporalClauseNeverArises ==
    /\ (pc = "validator") =>
           /\ STC \in X.cols
           /\ \A g \in StcIds(X.rows) :
                  Pieces(X.rows, Members(X.rows, g), "temporal", e_days) = 1
           /\ TemporalBad(X.rows, e_days) = <<>>
    /\ \A k \in 1..Len(log) : log[k].temporal_bad = 0
    /\ \A k \in 1..Len(errs) : OnlySpatialClauses(errs[k])
    /\ (entry \in {"controller", "pipeline"} /\ pc = "raised") =>
           OnlySpatialClauses(outcome.error)

\* TemporalReconnectWithinSpatiotemporal has just split a group, and the frame it left
\* will fail validation on the spatial axis
C27_Witness ==
    /\ pc = "validator"
    /\ Column(X.rows, "stc") # Column(given.rows, "stc")
    /\ SpatialBad(X.rows, e_dist) # <<>>

\* the records that share the id of record i in column f of rows
GroupIn(rows, f, i) == {j \in 1..Len(rows) : rows[j][f] = rows[i][f]}

\* C28: a splitter only refines the partition by the column it writes: two records with
\* different ids in that column before the call have different ids after it, so every
\* group after the call lies within the one group before the call that held its
\* records.
C28_SplittersOnlyRefine ==
    (SplitterDone # "none") =>
        /\ \A i, j \in 1..Len(X.rows) :
               (given.rows[i][SplitTarget] # given.rows[j][SplitTarget])
                   => (X.rows[i][SplitTarget] # X.rows[j][SplitTarget])
        /\ \A i \in 1..Len(X.rows) :
               GroupIn(X.rows, SplitTarget, i) \subseteq GroupIn(given.rows, SplitTarget, i)

\* a splitter split one of several groups: the other groups' ids were there to collide
\* with
C28_Witness ==
    /\ SplitterDone # "none"
    /\ NUnique(given.rows, SplitTarget) >= 2
    /\ \E i \in 1..Len(X.rows) :
           /\ GroupIn(X.rows, SplitTarget, i) # GroupIn(given.rows, SplitTarget, i)
           /\ given.rows[i][SplitTarget] # OldMax

\* the splitter that has just run, applied once more to what it returned
SplitAgain ==
    CASE SplitterDone = "spatial_reconnect" ->
             SpatialReconnectWithinTemporalTransform(X, e_dist, 0).ret
      [] SplitterDone = "spatial_reconnect_st" ->
             SpatialReconnectWithinSpatiotemporalTransform(X, e_dist, 0).ret
      [] SplitterDone = "temporal_reconnect_st" ->
             TemporalReconnectWithinSpatiotemporalTransform(X, e_days, 0).ret
      [] OTHER -> X

\* in the frame the splitter returned: the group of record i by the splitter's key
GroupAfter(i) ==
    {j \in 1..Len(X.rows) : KeyOf(X.rows[j], SplitBy) = KeyOf(X.rows[i], SplitBy)}

\* C29: a splitter applied a second time, with the same radius, to the frame it
\* returned changes nothing, because every group of that frame is one connected piece
\* on the splitter's axis; SpatialReconnectWithinSpatiotemporal leaves every
\* spatiotemporal group spatially connected.
C29_SplittersIdempotent ==
    (SplitterDone # "none") =>
        /\ SplitAgain = X
        /\ \A i \in 1..Len(X.rows) :
               ChainOf(X.rows, GroupAfter(i), {i}, SplitAxis, SplitEps) = GroupAfter(i)
        /\ (SplitterDone = "spatial_reconnect_st") => SpatialBad(X.rows, e_dist) = <<>>

\* a splitter cut one group into three pieces or more
C29_Witness ==
    /\ SplitterDone # "none"
    /\ \E i \in 1..Len(X.rows) :
           Cardinality({X.rows[j][SplitTarget] : j \in GroupOfRec(i)}) >= 3

\* where a run stands that holds a record set the controller returned
ControllerReturned ==
    \/ entry = "controller" /\ pc = "returned"
    \/ entry = "pipeline" /\ pc \in {"validate_connectivity", "returned"}

\* C30: in every record set the controller returned, two records with the same
\* spatiotemporal_cluster_id have the same spatial_cluster_id and the same
\* temporal_cluster_id.
C30_StcRefinesPairs ==
    (ControllerReturned /\ STC \in X.cols) =>
        \A i, j \in 1..Len(X.rows) :
            (X.rows[i].stc = X.rows[j].stc) => (PairOf(X.rows[i]) = PairOf(X.rows[j]))

====
